---- MODULE Spec2Model ----
(***************************************************************************)
(* Model of the listing finder: the orchestrator run() of run.py, the      *)
(* JSON store of src/store.py, the scrape loop of src/scraper.py, the      *)
(* filters of src/filters.py and the rating engine of src/rating.py.       *)
(***************************************************************************)
EXTENDS Integers, Sequences, FiniteSets, TLC

VARIABLES
    disk_store,     \* content of the LISTINGS_STORE document
    disk_seen,      \* content of SEEN_IDS_FILE, as load_seen_ids reads it
    pc,             \* position of run()
    err,            \* where the run raised ("" while it has not)
    store,          \* run(): store
    seen_ids,       \* scrape_all_towns(): seen_ids
    new_listings,   \* scrape_all_towns(): new_listings, then run(): raw_listings
    active_ids,     \* scrape_all_towns(): active_ids
    zips_left,      \* ZIP codes the scrape loop has still to visit
    fetched,        \* homes the provider has returned so far in this run
    search_ok,      \* some ZIP search of this run got the provider's answer
    stale_ids,      \* run(): stale_ids
    filtered,       \* run(): filtered
    idx,            \* index of the enrichment / rating loops over filtered
    exported,       \* the sequences handed to _export in this run
    trace,          \* steps of the run completed so far, in order
    load_result,    \* what the last load_store call did
    store_before,   \* the store as loaded at the start of the run
    seen_before,    \* the seen-id set as loaded at the start of the scrape
    returned_ids,   \* ids of the homes the provider returned in this run
    repeated_ids,   \* ids the provider returned more than once in this run
    enrich_raised,  \* ids whose compute_driving_times call raised in this run
    merged,         \* ids merged into the store in this run
    save_outcome,   \* how the save_store call of this run ended ("" if none)
    sc_listing,     \* rating engine: the listing handed to score_listing
    sc_result,      \* rating engine: what score_listing did with it
    geo_cache,      \* driving_times: the lru_cache of geocode_address
    geo_looked,     \* addresses sent to the geocoding service so far
    geo_relooked,   \* addresses sent to the geocoding service more than once
    geo_gap,        \* time slept since the last geocoding request (None before the first)
    route_gap,      \* time slept since the last routing request (None before the first)
    dt_call,        \* the last compute_driving_times call: its arguments and what it did
    sweep_next,     \* the next address of a run over ever new addresses (0: none)
    re_args,        \* rental estimate: the arguments of get_rental_estimate
    re_result,      \* rental estimate: what it returned
    nc_args,        \* net cost: the arguments of two estimate_net_monthly_cost calls
    nc_result,      \* net cost: what the two calls returned
    nm_query,       \* nearest station: the coordinates asked for
    nm_results,     \* nearest station: what the find_nearest_mbta calls so far returned
    rq_fn,          \* provider request: the function called ("" before the call)
    rq_responses,   \* provider request: what each request of the call met, in order
    rq_delays,      \* provider request: the _delay(lo, hi) calls of the call, in order
    rq_outcome      \* provider request: how the call ended (Pending until it has)

vars == <<disk_store, disk_seen, pc, err, store, seen_ids, new_listings,
          active_ids, zips_left, fetched, search_ok, stale_ids, filtered, idx, exported, trace,
          load_result, store_before, seen_before, returned_ids, repeated_ids,
          enrich_raised, merged, save_outcome, sc_listing, sc_result,
          geo_cache, geo_looked, geo_relooked, geo_gap, route_gap, dt_call,
          sweep_next, re_args, re_result, nc_args, nc_result, nm_query,
          nm_results, rq_fn, rq_responses, rq_delays, rq_outcome>>

run_vars == <<disk_store, disk_seen, pc, err, store, seen_ids, new_listings,
              active_ids, zips_left, fetched, search_ok, stale_ids, filtered, idx, exported, trace,
              load_result, store_before, seen_before, returned_ids,
              repeated_ids, enrich_raised, merged, save_outcome>>

score_vars == <<sc_listing, sc_result>>

drive_vars == <<geo_cache, geo_looked, geo_relooked, geo_gap, route_gap, dt_call,
                sweep_next>>

rental_vars == <<re_args, re_result>>

cost_vars == <<nc_args, nc_result>>

nearest_vars == <<nm_query, nm_results>>

retry_vars == <<rq_fn, rq_responses, rq_delays, rq_outcome>>

\* ---------------------------------------------------------------- values

\* Python's None, and a present value v
None == <<>>
Some(v) == <<v>>
Val(o) == o[1]

EmptyMap == [k \in {} |-> None]
Put(m, k, v) == [x \in DOMAIN m \cup {k} |-> IF x = k THEN v ELSE m[x]]
Restrict(m, S) == [x \in S |-> m[x]]
Range(s) == {s[i] : i \in DOMAIN s}

\* ---------------------------------------------------------------- bounds

\* homes the provider returns in one run, over all ZIP searches
MaxHomes == 3

Ids == {"A", "B", "C"}

\* ---------------------------------------------------------------- config.py

MAX_PRICE == 600000
MAX_HOA_MONTHLY == 500

\* two of the ZIP codes of ALLOWED_TOWNS, in the order of the list
Zips == <<"02135", "02134">>
ZipToTown == [z \in Range(Zips) |-> IF z = "02135" THEN "Brighton" ELSE "Allston"]
ALLOWED_ZIPS == Range(Zips)
ALLOWED_NAMES == {ZipToTown[z] : z \in ALLOWED_ZIPS}
BLOCKED_ZIPS == {"02121", "02122", "02124", "02125", "02130", "02128",
                 "02151", "02119", "02120", "02126", "02136"}

\* ---------------------------------------------------------------- store.py

\* The LISTINGS_STORE document, by what json.loads makes of it.  (config.py
\* does not define LISTINGS_STORE; the model takes it to name a file of
\* DATA_DIR, like SEEN_IDS_FILE.)
DocMissing == [kind |-> "missing"]
DocUnreadable == [kind |-> "unreadable"]   \* read_text raises (OSError, bad UTF-8)
DocCorrupt == [kind |-> "corrupt"]         \* not JSON: empty, truncated, garbage
DocScalar == [kind |-> "scalar"]           \* JSON, but a number (42)
DocList(items) == [kind |-> "list", items |-> items]
DocDict(map) == [kind |-> "dict", map |-> map]

\* a JSON array element that is no object (a number: "zpid" in 5 raises
\* TypeError)
NonObject == [nonobject |-> TRUE]
IsObject(item) == "nonobject" \notin DOMAIN item

\* {item["zpid"]: item for item in data if "zpid" in item}; raises TypeError on
\* an element that is no object
RECURSIVE MigrateList(_, _)
MigrateList(items, acc) ==
    IF items = <<>> THEN [raised |-> FALSE, map |-> acc]
    ELSE LET item == Head(items) IN
         IF ~IsObject(item) THEN [raised |-> TRUE, map |-> EmptyMap]
         ELSE IF "zpid" \in DOMAIN item
              THEN MigrateList(Tail(items), Put(acc, item.zpid, item))
              ELSE MigrateList(Tail(items), acc)

\* a load_store that returns a list as it is
LoadStoreNoMigration(doc) ==
    CASE doc.kind = "missing" -> [raised |-> FALSE, mapping |-> TRUE, map |-> EmptyMap]
      [] doc.kind = "unreadable" -> [raised |-> TRUE, mapping |-> FALSE, map |-> EmptyMap]
      [] doc.kind = "corrupt" -> [raised |-> FALSE, mapping |-> TRUE, map |-> EmptyMap]
      [] doc.kind = "scalar" -> [raised |-> FALSE, mapping |-> FALSE, map |-> EmptyMap]
      [] doc.kind = "list" -> [raised |-> FALSE, mapping |-> FALSE, map |-> EmptyMap]
      [] doc.kind = "dict" -> [raised |-> FALSE, mapping |-> TRUE, map |-> doc.map]

\* load_store(): raised = an exception leaves the function, mapping = the
\* returned value is a dict, map = that dict
load_store(doc) ==
    CASE doc.kind = "missing" -> [raised |-> FALSE, mapping |-> TRUE, map |-> EmptyMap]
      [] doc.kind = "unreadable" -> [raised |-> TRUE, mapping |-> FALSE, map |-> EmptyMap]
      [] doc.kind = "corrupt" -> [raised |-> FALSE, mapping |-> TRUE, map |-> EmptyMap]
      [] doc.kind = "scalar" -> [raised |-> FALSE, mapping |-> FALSE, map |-> EmptyMap]
      [] doc.kind = "list" ->
            LET m == MigrateList(doc.items, EmptyMap) IN
            IF m.raised
            THEN [raised |-> FALSE, mapping |-> TRUE, map |-> EmptyMap]
            ELSE [raised |-> FALSE, mapping |-> TRUE, map |-> m.map]
      [] doc.kind = "dict" -> [raised |-> FALSE, mapping |-> TRUE, map |-> doc.map]

\* a dump that keeps of every listing only its id
JsonDumpsIdsOnly(listings) ==
    DocDict([k \in DOMAIN listings |-> [zpid |-> k]])

\* json.dumps(listings, indent=2): the document json.loads reads back as the
\* same dict (the keys are strings, the values JSON-representable records)
JsonDumps(listings) == DocDict(listings)

\* save_store(listings), by how write_text ends: "ok"; "failed_early", mkdir or
\* open raised and the file is untouched; "failed_partial", the file was
\* opened (truncated) and the write raised or the process died before the
\* whole text was out, which leaves a strict prefix of the text: not JSON.
SaveOutcomes == {"ok", "failed_early", "failed_partial"}
save_store(doc, listings, outcome) ==
    CASE outcome = "ok" -> JsonDumps(listings)
      [] outcome = "failed_early" -> doc
      [] outcome = "failed_partial" -> DocCorrupt

\* ---------------------------------------------------------------- scraper.py

\* A home of the GIS payload.  Of its fields only propertyId and price vary in
\* this model; the others are the same for every home.
Home(pid, price, zip) ==
    [propertyId |-> pid, price |-> price, hoa |-> None, beds |-> Some(2),
     sqFt |-> Some(800), latLong |-> Some(<<42, -71>>), zip |-> zip]

\* the homes a search may return: every id under and over the price ceiling,
\* one home without a price, one without an id
Homes(zip) == {Home(Some(i), Some(p), zip) : i \in Ids, p \in {350000, 650000}}
                  \cup {Home(Some("A"), None, zip), Home(None, Some(350000), zip)}

RECURSIVE SeqsUpTo(_, _)
SeqsUpTo(S, n) ==
    IF n = 0 THEN {<<>>}
    ELSE LET shorter == SeqsUpTo(S, n - 1) IN
         shorter \cup {Append(s, x) : s \in {t \in shorter : Len(t) = n - 1}, x \in S}

\* extract_listing(home, town_name): None, or the listing dict
extract_listing(home, town_name) ==
    IF home.propertyId = None THEN None
    ELSE IF home.price = None THEN None
    ELSE Some([zpid |-> Val(home.propertyId),
               address |-> [blocked_name |-> FALSE, zip |-> Some(home.zip), town_name |-> FALSE],
               price |-> home.price,
               hoa |-> home.hoa,
               beds |-> home.beds,
               sqft |-> home.sqFt,
               in_unit_laundry |-> None,
               parking |-> "Unknown",
               rent_zestimate |-> None,
               latitude |-> IF home.latLong = None THEN None ELSE Some(Val(home.latLong)[1]),
               longitude |-> IF home.latLong = None THEN None ELSE Some(Val(home.latLong)[2]),
               town |-> Some(town_name)])

\* the defaults scrape_all_towns fills in before it appends a listing
FillDefaults(listing) ==
    [listing EXCEPT !.hoa = IF @ = None THEN Some(0) ELSE @,
                    !.in_unit_laundry = IF @ = None THEN Some(FALSE) ELSE @]

\* The body of the loop over the homes of one ZIP, folded over the homes:
\* st = [seen_ids, new_listings, active_ids].
\* a scan that never finds an id in seen_ids
SeenCheckSkipped(pid, seen) == FALSE

\* pid in seen_ids
AlreadySeen(pid, seen) == pid \in seen

RECURSIVE ScanHomes(_, _, _)
ScanHomes(homes, town_name, st) ==
    IF homes = <<>> THEN st
    ELSE LET listing == extract_listing(Head(homes), town_name) IN
         IF listing = None THEN ScanHomes(Tail(homes), town_name, st)
         ELSE LET pid == Val(listing).zpid
                  act == st.active_ids \cup {pid}
              IN IF AlreadySeen(pid, st.seen_ids)
                 THEN ScanHomes(Tail(homes), town_name,
                                [st EXCEPT !.active_ids = act])
                 ELSE ScanHomes(Tail(homes), town_name,
                                [seen_ids |-> st.seen_ids \cup {pid},
                                 new_listings |-> Append(st.new_listings,
                                                         FillDefaults(Val(listing))),
                                 active_ids |-> act])

\* ---------------------------------------------------------------- filters.py

\* a price filter with no ceiling
PriceFilterNoCeiling(price) == price # None

\* passes_price_filter(price)
passes_price_filter(price) ==
    IF price = None THEN FALSE ELSE Val(price) <= MAX_PRICE

passes_hoa_filter(hoa) ==
    IF hoa = None \/ hoa = Some(0) THEN TRUE ELSE Val(hoa) <= MAX_HOA_MONTHLY

\* An address is modelled by what the filters read of it: whether it holds a
\* blocked neighbourhood name, its ZIP code, whether it holds an allowed town.
is_location_allowed(address, town_hint) ==
    IF address.blocked_name THEN FALSE
    ELSE IF address.zip # None /\ Val(address.zip) \in BLOCKED_ZIPS THEN FALSE
    ELSE IF address.zip # None /\ Val(address.zip) \in ALLOWED_ZIPS THEN TRUE
    ELSE IF town_hint # None /\ Val(town_hint) \in ALLOWED_NAMES THEN TRUE
    ELSE address.town_name

filter_listing(listing) ==
    /\ passes_price_filter(listing.price)
    /\ passes_hoa_filter(listing.hoa)
    /\ is_location_allowed(listing.address, listing.town)

\* ---------------------------------------------------------------- rental_estimate.py

FallbackRents == [t \in ALLOWED_NAMES |-> IF t = "Brighton" THEN 2000 ELSE 1900]
MetroRent == 1800

\* a per-room rent without the 5% premium
RentFromEstimateNoPremium(rent_zestimate, beds) == (rent_zestimate \div 100) \div beds

\* per_room = int(rent_zestimate) // beds; int(per_room * 1.05).  The estimate
\* is in cents, so that int() truncates; the float product truncates to the
\* same integer as the exact one for every per_room up to 200000.
RentFromEstimate(rent_zestimate, beds) ==
    (((rent_zestimate \div 100) \div beds) * 105) \div 100

\* an estimate that is 0 below one bedroom only
RentalEstimateFromOneBed(town, rent_zestimate, beds) ==
    IF beds = None \/ Val(beds) < 1 THEN 0
    ELSE IF rent_zestimate # None /\ Val(rent_zestimate) > 0
         THEN RentFromEstimate(Val(rent_zestimate), Val(beds))
    ELSE IF town # None /\ Val(town) \in DOMAIN FallbackRents
         THEN (FallbackRents[Val(town)] * 65) \div 100
    ELSE (MetroRent * 65) \div 100

\* get_rental_estimate(town, rent_zestimate, beds), rent_zestimate in cents
get_rental_estimate(town, rent_zestimate, beds) ==
    IF beds = None \/ Val(beds) < 2 THEN 0
    ELSE IF rent_zestimate # None /\ Val(rent_zestimate) > 0
         THEN RentFromEstimate(Val(rent_zestimate), Val(beds))
    ELSE IF town # None /\ Val(town) \in DOMAIN FallbackRents
         THEN (FallbackRents[Val(town)] * 65) \div 100
    ELSE (MetroRent * 65) \div 100

\* ---------------------------------------------------------------- rating.py

\* RATING_THRESHOLDS of config.py: (green ceiling, red floor) by category
RATING_THRESHOLDS ==
    [price            |-> <<400000, 500000>>,
     hoa              |-> <<200, 400>>,
     net_monthly_cost |-> <<2000, 3000>>,
     commute_seaport  |-> <<15, 30>>,
     commute_google   |-> <<15, 25>>,
     mbta_proximity   |-> <<5, 15>>]

\* RATING_WEIGHTS of config.py, in hundredths
RATING_WEIGHTS ==
    [price            |-> 20,
     hoa              |-> 10,
     net_monthly_cost |-> 20,
     commute_seaport  |-> 15,
     commute_google   |-> 10,
     mbta_proximity   |-> 10,
     in_unit_laundry  |-> 5,
     parking          |-> 5,
     size             |-> 5]

\* in hundredths
RATING_GREEN_MIN == 230
RATING_YELLOW_MIN == 170

_score_lower_is_better(value, green_max, red_min) ==
    IF value = None THEN 2
    ELSE IF Val(value) <= green_max THEN 3
    ELSE IF Val(value) >= red_min THEN 1
    ELSE 2

\* _score_lower_is_better(num / den, green_max, red_min), the true division
\* compared exactly
_score_ratio_lower_is_better(num, den, green_max, red_min) ==
    IF num <= green_max * den THEN 3
    ELSE IF num >= red_min * den THEN 1
    ELSE 2

_score_boolean(value, good_value) ==
    IF value = None THEN 2
    ELSE IF Val(value) = good_value THEN 3 ELSE 1

\* True of a Python value (number or None) that is truthy
Truthy(o) == o # None /\ Val(o) # 0

SizeScore(sqft, beds) ==
    IF Truthy(sqft) /\ Val(sqft) >= 900 THEN 3
    ELSE IF Truthy(beds) /\ Val(beds) >= 2 THEN 3
    ELSE IF Truthy(sqft) /\ Val(sqft) >= 700 THEN 2
    ELSE IF Truthy(sqft) /\ Val(sqft) < 700 THEN 1
    ELSE 2

RECURSIVE WeightedTotal(_, _)
WeightedTotal(scores, cats) ==
    IF cats = {} THEN 0
    ELSE LET c == CHOOSE x \in cats : TRUE IN
         (IF c \in DOMAIN scores THEN scores[c] ELSE 2) * RATING_WEIGHTS[c]
             + WeightedTotal(scores, cats \ {c})

ColorOf(total) ==
    IF total >= RATING_GREEN_MIN THEN "Green"
    ELSE IF total >= RATING_YELLOW_MIN THEN "Yellow"
    ELSE "Red"

\* bool(parking and parking.lower() not in ("none listed", "none", ""))
HasParking(parking) == parking \notin {"none listed", "none", ""}

\* scores["in_unit_laundry"] and scores["parking"] of score_listing
LaundryScore(listing) == _score_boolean(listing.in_unit_laundry, TRUE)
ParkingScore(listing) == _score_boolean(Some(HasParking(listing.parking)), TRUE)

\* the thresholds score_listing looks up, in the order it looks them up
ThresholdKeys == <<"price", "price_per_bed", "hoa", "net_monthly_cost",
                   "commute_seaport", "commute_google", "mbta_proximity">>

Raised(what) == [raised |-> TRUE, error |-> what]

\* score_listing(listing): raised, or (score, color, category_scores); the
\* score in hundredths, the listing's net_monthly_cost in cents.  A key that RATING_THRESHOLDS lacks raises KeyError at
\* its lookup; price None with beds > 0 raises TypeError at the division.
score_listing(listing) ==
    LET T == RATING_THRESHOLDS
        Missing == {i \in DOMAIN ThresholdKeys : ThresholdKeys[i] \notin DOMAIN T}
    IN
    IF Missing # {}
    THEN Raised("KeyError")
    ELSE IF Truthy(listing.beds) /\ Val(listing.beds) > 0 /\ listing.price = None
    THEN Raised("TypeError")
    ELSE
    LET thr(k) == T[k]
        has_beds == Truthy(listing.beds) /\ Val(listing.beds) > 0
        hoa == IF Truthy(listing.hoa) THEN listing.hoa ELSE Some(0)
        scores ==
            [price |-> _score_lower_is_better(listing.price, thr("price")[1], thr("price")[2]),
             price_per_bed |->
                 IF has_beds
                 THEN _score_ratio_lower_is_better(Val(listing.price), Val(listing.beds),
                          thr("price_per_bed")[1], thr("price_per_bed")[2])
                 ELSE _score_lower_is_better(None,
                          thr("price_per_bed")[1], thr("price_per_bed")[2]),
             hoa |-> _score_lower_is_better(hoa, thr("hoa")[1], thr("hoa")[2]),
             net_monthly_cost |-> _score_lower_is_better(listing.net_monthly_cost,
                                   thr("net_monthly_cost")[1] * 100,
                                   thr("net_monthly_cost")[2] * 100),
             commute_seaport |-> _score_lower_is_better(listing.drive_seaport_min,
                                   thr("commute_seaport")[1], thr("commute_seaport")[2]),
             commute_google |-> _score_lower_is_better(listing.drive_google_min,
                                   thr("commute_google")[1], thr("commute_google")[2]),
             mbta_proximity |-> _score_lower_is_better(listing.drive_mbta_min,
                                   thr("mbta_proximity")[1], thr("mbta_proximity")[2]),
             in_unit_laundry |-> LaundryScore(listing),
             parking |-> ParkingScore(listing),
             size |-> SizeScore(listing.sqft, listing.beds)]
        total == WeightedTotal(scores, DOMAIN RATING_WEIGHTS)
    IN [raised |-> FALSE, score |-> total, color |-> ColorOf(total), scores |-> scores]

\* estimate_net_monthly_cost(price, hoa, rental_estimate, **EXCEL_DEFAULTS), in
\* cents.  PmtFactor is monthly_rate * (1 + monthly_rate)^n / ((1 +
\* monthly_rate)^n - 1) for interest_rate 0.065 and 30 years, per 10^7.
PmtFactor == 63207
DownPaymentPct == 20
InsuranceMonthly == 150
UtilitiesMonthly == 250
InternetMonthly == 60

InterestRate == 65
LoanTermYears == 30

\* the PMT branch: the annuity payment for interest_rate 0.065 (the one
\* positive rate of the model), loan_amount / n_payments for a rate of 0; in
\* cents, interest_rate in thousandths
Mortgage(loan_amount, interest_rate, loan_term_years) ==
    IF interest_rate > 0
    THEN ((loan_amount \div 1000) * PmtFactor) \div 100
    ELSE (loan_amount * 100) \div (loan_term_years * 12)

\* a net cost that takes the recurring fee off
NetMonthlyCostLessFee(price, hoa, rental_estimate, interest_rate, loan_term_years) ==
    LET loan_amount == price - (price * DownPaymentPct) \div 100
    IN Mortgage(loan_amount, interest_rate, loan_term_years) - hoa * 100
           + price \div 10 + InsuranceMonthly * 100 + UtilitiesMonthly * 100
           + InternetMonthly * 100 - rental_estimate * 100

\* estimate_net_monthly_cost with interest_rate and loan_term_years as given
\* and the other keyword arguments as in EXCEL_DEFAULTS
NetMonthlyCost(price, hoa, rental_estimate, interest_rate, loan_term_years) ==
    LET down_payment == (price * DownPaymentPct) \div 100
        loan_amount == price - down_payment
        mortgage == Mortgage(loan_amount, interest_rate, loan_term_years)
        property_tax_mo == price \div 10
        total == mortgage + hoa * 100 + property_tax_mo + InsuranceMonthly * 100
                     + UtilitiesMonthly * 100 + InternetMonthly * 100
    IN total - rental_estimate * 100

estimate_net_monthly_cost(price, hoa, rental_estimate) ==
    NetMonthlyCost(price, hoa, rental_estimate, InterestRate, LoanTermYears)

\* ---------------------------------------------------------------- driving_times.py

\* compute_driving_times(address, lat, lng), by how the call ends: the record
\* it returns, or "raised".
DrivingOutcomes == {"ok", "route_failed", "raised"}

compute_driving_times(outcome) ==
    CASE outcome = "ok" ->
            [drive_mbta_min |-> Some(7), nearest_mbta_station |-> "Harvard Ave",
             drive_seaport_min |-> Some(22), drive_google_min |-> Some(14)]
      [] outcome = "route_failed" ->
            [drive_mbta_min |-> None, nearest_mbta_station |-> "Harvard Ave",
             drive_seaport_min |-> None, drive_google_min |-> None]

\* The calls in detail.  Coordinates are in thousandths of a degree, times in
\* tenths of a second, an address is a number.

\* DESTINATIONS and MBTA_STATIONS of config.py: of the stations seven, in the
\* order of the list, among them the two that the list holds twice (once per line)
DESTINATIONS ==
    [seaport          |-> [lat |-> 42352, lng |-> -71045],
     google_cambridge |-> [lat |-> 42363, lng |-> -71085]]

MBTA_STATIONS ==
    <<[name |-> "Harvard",           lat |-> 42373, lng |-> -71119, line |-> "Red"],
      [name |-> "Central",           lat |-> 42365, lng |-> -71104, line |-> "Red"],
      [name |-> "Kendall/MIT",       lat |-> 42362, lng |-> -71086, line |-> "Red"],
      [name |-> "Park Street",       lat |-> 42356, lng |-> -71062, line |-> "Red"],
      [name |-> "Downtown Crossing", lat |-> 42355, lng |-> -71060, line |-> "Red"],
      [name |-> "Downtown Crossing", lat |-> 42355, lng |-> -71060, line |-> "Orange"],
      [name |-> "Park Street",       lat |-> 42356, lng |-> -71062, line |-> "Green"]>>

OSRM_DELAY == 11
GeocodeSleep == 11
LRU_MAXSIZE == 1024

\* functools.lru_cache(maxsize=LRU_MAXSIZE): the (key, value) entries, the
\* least recently used first.  A hit moves its entry to the end; a miss on a
\* full cache drops the first entry.
CacheIndex(cache, key) ==
    IF \E i \in DOMAIN cache : cache[i][1] = key
    THEN CHOOSE i \in DOMAIN cache : cache[i][1] = key
    ELSE 0

CacheHit(cache, k) ==
    [i \in 1..Len(cache) |-> IF i < k THEN cache[i]
                             ELSE IF i < Len(cache) THEN cache[i + 1]
                             ELSE cache[k]]

CacheInsert(cache, key, value) ==
    Append(IF Len(cache) >= LRU_MAXSIZE THEN Tail(cache) ELSE cache, <<key, value>>)

\* what the geocoding service answers: a result list with coordinates, an
\* empty list, a body that is not the expected JSON, an error status, no answer
GeoResponses == {"ok", "empty", "malformed", "http_error", "timeout"}

\* the coordinates the geocoding service has for an address
GeoCoords(address) == <<42350 + 10 * address, -71140 - 10 * address>>

\* a body of geocode_address without its except clause
geocode_body_NoExcept(address, response) ==
    CASE response = "ok" ->
            [raised |-> FALSE, result |-> Some(GeoCoords(address)), slept |-> GeocodeSleep]
      [] response = "empty" ->
            [raised |-> FALSE, result |-> None, slept |-> 0]
      [] OTHER ->
            [raised |-> TRUE, result |-> None, slept |-> 0]

\* the body of geocode_address: what it returns and how long it slept
geocode_body(address, response) ==
    CASE response = "ok" ->
            [raised |-> FALSE, result |-> Some(GeoCoords(address)), slept |-> GeocodeSleep]
      [] response = "empty" ->
            [raised |-> FALSE, result |-> None, slept |-> 0]
      [] OTHER ->
            [raised |-> FALSE, result |-> None, slept |-> 0]

\* geocode_address(address) under lru_cache: the body runs on a miss only, and
\* what it returns is cached (an exception would not be)
geocode_address(cache, address, response) ==
    LET k == CacheIndex(cache, address) IN
    IF k # 0
    THEN [raised |-> FALSE, result |-> cache[k][2], cache |-> CacheHit(cache, k),
          requests |-> 0, slept |-> 0]
    ELSE LET b == geocode_body(address, response) IN
         [raised |-> b.raised, result |-> b.result,
          cache |-> IF b.raised THEN cache ELSE CacheInsert(cache, address, b.result),
          requests |-> 1, slept |-> b.slept]

\* what the routing service answers: a durations row under code "Ok", or a
\* failure of the given kind
OsrmFailures == {"transport_error", "http_error", "unparsable", "not_ok", "no_durations"}
OsrmRows ==
    {<<Some(420), Some(1330), Some(845)>>,
     <<None, Some(1330), Some(845)>>,
     <<Some(420), None, None>>,
     <<None, None, None>>,
     <<Some(420), Some(1330)>>,
     <<>>}
OsrmResponses ==
    {[kind |-> k, row |-> <<>>] : k \in OsrmFailures}
        \cup {[kind |-> "ok", row |-> r] : r \in OsrmRows}

\* _osrm_table(origin_lat, origin_lng, destinations): the request it sends and
\* the list it returns
_osrm_table(origin_lat, origin_lng, destinations, response) ==
    [request |-> [origin |-> <<origin_lat, origin_lng>>,
                  destinations |-> [i \in 1..Len(destinations) |->
                                       <<destinations[i].lat, destinations[i].lng>>]],
     durations |-> IF response.kind = "ok" THEN response.row
                   ELSE [i \in 1..Len(destinations) |-> None]]

\* _haversine_km, by a stand-in that orders the stations of the area as it
\* does: the squared distance on the grid, a degree of longitude taken as
\* 0.74 of a degree of latitude
_haversine_km(lat1, lng1, lat2, lng2) ==
    (lat2 - lat1) * (lat2 - lat1)
        + (((lng2 - lng1) * 74) \div 100) * (((lng2 - lng1) * 74) \div 100)

\* a comparison that lets a later station of equal distance win
CloserOrEqual(dist, best_dist) == dist <= best_dist

\* dist < best_dist
Closer(dist, best_dist) == dist < best_dist

\* find_nearest_mbta(lat, lng): the loop over MBTA_STATIONS from station i on,
\* best = 0 standing for the initial best_dist of infinity
RECURSIVE NearestFrom(_, _, _, _)
NearestFrom(lat, lng, i, best) ==
    IF i > Len(MBTA_STATIONS) THEN best
    ELSE LET dist(j) == _haversine_km(lat, lng, MBTA_STATIONS[j].lat, MBTA_STATIONS[j].lng)
         IN IF best = 0 \/ Closer(dist(i), dist(best))
            THEN NearestFrom(lat, lng, i + 1, i)
            ELSE NearestFrom(lat, lng, i + 1, best)

find_nearest_mbta(lat, lng) == MBTA_STATIONS[NearestFrom(lat, lng, 1, 0)]

\* to_minutes(seconds), in tenths of a minute
to_minutes(seconds) ==
    IF seconds = None THEN None ELSE Some((Val(seconds) + 3) \div 6)

\* the result of compute_driving_times when the address does not geocode
UnknownTimes ==
    [drive_mbta_min |-> None, nearest_mbta_station |-> "Unknown",
     drive_seaport_min |-> None, drive_google_min |-> None]

\* a call that geocodes whatever the caller supplies
NeedsGeocodeAlways(lat, lng) == TRUE

\* lat is None or lng is None
NeedsGeocode(lat, lng) == lat = None \/ lng = None

\* a wait after successful routing requests only
RouteSleepOnSuccess(durations) ==
    IF \E i \in DOMAIN durations : durations[i] # None THEN OSRM_DELAY ELSE 0

\* time.sleep(OSRM_DELAY) after _osrm_table returns
RouteSleep(durations) == OSRM_DELAY

\* compute_driving_times(address, lat, lng) on the given geocode cache, with
\* the answers the two services would give: whether it raised, what it
\* returned, the cache it leaves, and the requests and sleeps it made
DrivingTimesCall(cache, address, lat, lng, geo_response, osrm_response) ==
    LET need == NeedsGeocode(lat, lng)
        g == IF need THEN geocode_address(cache, address, geo_response)
             ELSE [raised |-> FALSE, result |-> Some(<<Val(lat), Val(lng)>>),
                   cache |-> cache, requests |-> 0, slept |-> 0]
        base == [raised |-> g.raised, result |-> UnknownTimes, cache |-> g.cache,
                 geo_called |-> need, geo_requests |-> g.requests,
                 geo_slept |-> g.slept, origin |-> g.result,
                 route_requests |-> <<>>, route_slept |-> 0]
    IN
    IF g.raised \/ g.result = None THEN base
    ELSE
    LET coords == Val(g.result)
        station == find_nearest_mbta(coords[1], coords[2])
        dest_list == <<[lat |-> station.lat, lng |-> station.lng],
                       DESTINATIONS.seaport, DESTINATIONS.google_cambridge>>
        t == _osrm_table(coords[1], coords[2], dest_list, osrm_response)
        routed == [base EXCEPT !.route_requests = <<t.request>>,
                               !.route_slept = RouteSleep(t.durations)]
    IN
    IF Len(t.durations) < 3
    THEN [routed EXCEPT !.raised = TRUE]
    ELSE [routed EXCEPT !.result =
             [drive_mbta_min |-> to_minutes(t.durations[1]),
              nearest_mbta_station |-> station.name,
              drive_seaport_min |-> to_minutes(t.durations[2]),
              drive_google_min |-> to_minutes(t.durations[3])]]

\* ---------------------------------------------------------------- run.py

\* run(): the except branch of step 5a
ErrorTimes ==
    [drive_mbta_min |-> None, nearest_mbta_station |-> "Error",
     drive_seaport_min |-> None, drive_google_min |-> None]

\* listing.update(d)
Update(listing, d) == d @@ listing

\* a prune that finds nothing stale
StaleIdsNone(keys, active) == {}

\* set(store.keys()) - active_ids

StaleIds(keys, active) == keys \ active

\* x.get("rating_score", 0)
RatingKey(x) == IF "rating_score" \in DOMAIN x THEN x.rating_score ELSE 0

RECURSIVE Perms(_)
Perms(S) ==
    IF S = {} THEN {<<>>}
    ELSE UNION {{<<x>> \o p : p \in Perms(S \ {x})} : x \in S}

\* the values in any order
ValuesUnsorted(m) == {[i \in 1..Len(p) |-> m[p[i]]] : p \in Perms(DOMAIN m)}

\* sorted(store.values(), key=..., reverse=True): the values in an order of
\* non-increasing key (ties in the order of the dict, which the model leaves
\* open)
SortedValues(m) ==
    {[i \in 1..Len(p) |-> m[p[i]]] : p \in
        {q \in Perms(DOMAIN m) :
            \A i \in 1..(Len(q) - 1) : RatingKey(m[q[i]]) >= RatingKey(m[q[i + 1]])}}

RECURSIVE SelectFiltered(_)
SelectFiltered(raw) ==
    IF raw = <<>> THEN <<>>
    ELSE IF filter_listing(Head(raw))
         THEN <<Head(raw)>> \o SelectFiltered(Tail(raw))
         ELSE SelectFiltered(Tail(raw))

\* the record a rated listing is merged as (step 5b, after score_listing)
RatedListing(listing, rental_est, net_cost, rating) ==
    Update(listing,
           [rental_estimate |-> rental_est,
            net_monthly_cost |-> Some(net_cost),
            rating_score |-> rating.score,
            rating_color |-> rating.color,
            category_scores |-> rating.scores,
            in_unit_laundry |-> IF listing.in_unit_laundry = None
                                THEN Some(FALSE) ELSE listing.in_unit_laundry])

\* ---------------------------------------------------------------- documents

StoredScore(id) == IF id = "B" THEN 185 ELSE 250

\* a listing an earlier run stored
Stored(id) ==
    [zpid |-> id, price |-> Some(450000), rating_score |-> StoredScore(id),
     rating_color |-> ColorOf(StoredScore(id))]

NoIdRecord == [price |-> Some(450000), rating_score |-> 200]

InitDocs ==
    {DocMissing, DocUnreadable, DocCorrupt, DocScalar,
     DocList(<<Stored("A"), NoIdRecord, Stored("B")>>),
     DocList(<<Stored("A"), NonObject>>)}
        \cup {DocDict([i \in S |-> Stored(i)]) : S \in SUBSET Ids}

\* ---------------------------------------------------------------- the run

NoListing == [none |-> TRUE]
NoResult == [none |-> TRUE]

NoCall == [none |-> TRUE]
NoArgs == [none |-> TRUE]

\* driving_times at import: an empty cache, no request sent yet
DriveIdle ==
    /\ geo_cache = <<>>
    /\ geo_looked = {}
    /\ geo_relooked = {}
    /\ geo_gap = None
    /\ route_gap = None
    /\ dt_call = NoCall
    /\ sweep_next = 0

\* no get_rental_estimate call under way
RentalIdle ==
    /\ re_args = NoArgs
    /\ re_result = None

\* no estimate_net_monthly_cost call under way
CostIdle ==
    /\ nc_args = NoArgs
    /\ nc_result = None

\* no find_nearest_mbta call under way
NearestIdle ==
    /\ nm_query = NoArgs
    /\ nm_results = <<>>

\* a call that has not ended
Pending == [pending |-> TRUE]

\* no search_zip or _resolve_region_id call under way
RetryIdle ==
    /\ rq_fn = ""
    /\ rq_responses = <<>>
    /\ rq_delays = <<>>
    /\ rq_outcome = Pending

\* the locals of a run before it starts
Fresh ==
    /\ err = ""
    /\ store = EmptyMap
    /\ seen_ids = {}
    /\ new_listings = <<>>
    /\ active_ids = {}
    /\ zips_left = <<>>
    /\ fetched = 0
    /\ search_ok = FALSE
    /\ stale_ids = {}
    /\ filtered = <<>>
    /\ idx = 1
    /\ exported = <<>>
    /\ trace = <<>>
    /\ load_result = "none"
    /\ store_before = EmptyMap
    /\ seen_before = {}
    /\ returned_ids = {}
    /\ repeated_ids = {}
    /\ enrich_raised = {}
    /\ merged = {}
    /\ save_outcome = ""

\* the locals of a run, reset for the next run
Reset ==
    /\ err' = ""
    /\ store' = EmptyMap
    /\ seen_ids' = {}
    /\ new_listings' = <<>>
    /\ active_ids' = {}
    /\ zips_left' = <<>>
    /\ fetched' = 0
    /\ search_ok' = FALSE
    /\ stale_ids' = {}
    /\ filtered' = <<>>
    /\ idx' = 1
    /\ exported' = <<>>
    /\ trace' = <<>>
    /\ load_result' = "none"
    /\ store_before' = EmptyMap
    /\ seen_before' = {}
    /\ returned_ids' = {}
    /\ repeated_ids' = {}
    /\ enrich_raised' = {}
    /\ merged' = {}
    /\ save_outcome' = ""

Init ==
    /\ disk_store \in InitDocs
    /\ disk_seen \in SUBSET Ids
    /\ pc = "idle"
    /\ Fresh
    /\ sc_listing = NoListing
    /\ sc_result = NoResult
    /\ DriveIdle
    /\ RentalIdle
    /\ CostIdle
    /\ NearestIdle
    /\ RetryIdle

Abort(where) ==
    /\ pc' = "aborted"
    /\ err' = where

\* Step 1: store = load_store(); len(store)
LoadStore ==
    /\ pc = "idle"
    /\ LET r == load_store(disk_store) IN
       /\ load_result' = IF r.raised THEN "raised"
                         ELSE IF r.mapping THEN "mapping" ELSE "nonmapping"
       /\ IF r.raised
          THEN Abort("load_store") /\ UNCHANGED <<store, store_before, trace>>
          ELSE IF ~r.mapping
          THEN Abort("len(store)") /\ UNCHANGED <<store, store_before, trace>>
          ELSE /\ store' = r.map
               /\ store_before' = r.map
               /\ trace' = Append(trace, "load")
               /\ pc' = "scrape_begin"
               /\ err' = err
    /\ UNCHANGED <<disk_store, disk_seen, seen_ids, new_listings, active_ids,
                   zips_left, fetched, search_ok, stale_ids, filtered, idx, exported, seen_before,
                   returned_ids, repeated_ids, enrich_raised, merged,
                   save_outcome, score_vars, drive_vars, rental_vars, cost_vars, nearest_vars, retry_vars>>

\* scrape_all_towns(), up to the loop over the ZIP codes: seen_ids = load_seen_ids()
BeginScrape ==
    /\ pc = "scrape_begin"
    /\ seen_ids' = disk_seen
    /\ seen_before' = disk_seen
    /\ new_listings' = <<>>
    /\ active_ids' = {}
    /\ zips_left' = Zips
    /\ fetched' = 0
    /\ search_ok' = FALSE
    /\ pc' = "scrape"
    /\ UNCHANGED <<disk_store, disk_seen, err, store, stale_ids, filtered, idx,
                   exported, trace, load_result, store_before, returned_ids,
                   repeated_ids, enrich_raised, merged, save_outcome, score_vars, drive_vars, rental_vars, cost_vars, nearest_vars, retry_vars>>

HomeIds(homes) ==
    {Val(homes[i].propertyId) : i \in {j \in DOMAIN homes : homes[j].propertyId # None}}

\* scrape_all_towns(): one turn of the loop over the ZIP codes; homes is what
\* search_zip returned.  answered is false when the ZIP has no region id or
\* search_zip gave up after its retries: the ZIP then contributes no homes.
SearchZip ==
    /\ pc = "scrape"
    /\ zips_left # <<>>
    /\ LET zip == Head(zips_left) IN
       \E answered \in BOOLEAN :
       \E homes \in (IF answered THEN SeqsUpTo(Homes(zip), MaxHomes - fetched)
                     ELSE {<<>>}) :
          LET st == ScanHomes(homes, ZipToTown[zip],
                              [seen_ids |-> seen_ids, new_listings |-> new_listings,
                               active_ids |-> active_ids])
          IN /\ seen_ids' = st.seen_ids
             /\ new_listings' = st.new_listings
             /\ active_ids' = st.active_ids
             /\ fetched' = fetched + Len(homes)
             /\ search_ok' = (search_ok \/ answered)
             /\ returned_ids' = returned_ids \cup HomeIds(homes)
             /\ repeated_ids' = repeated_ids
                   \cup (returned_ids \cap HomeIds(homes))
                   \cup {Val(homes[i].propertyId) : i \in
                            {j \in DOMAIN homes : \E k \in DOMAIN homes :
                                k # j /\ homes[j].propertyId # None
                                      /\ homes[k].propertyId = homes[j].propertyId}}
    /\ zips_left' = Tail(zips_left)
    /\ UNCHANGED <<disk_store, disk_seen, pc, err, store, stale_ids, filtered, idx,
                   exported, trace, load_result, store_before, seen_before,
                   enrich_raised, merged, save_outcome, score_vars, drive_vars, rental_vars, cost_vars, nearest_vars, retry_vars>>

\* scrape_all_towns(), after the loop: prune seen_ids, save_seen_ids, return
FinishScrape ==
    /\ pc = "scrape"
    /\ zips_left = <<>>
    /\ LET stale == seen_ids \ active_ids IN
       /\ seen_ids' = seen_ids \ stale
       /\ disk_seen' = seen_ids \ stale
    /\ trace' = Append(trace, "scrape")
    /\ pc' = "prune"
    /\ UNCHANGED <<disk_store, err, store, new_listings, active_ids, zips_left, fetched, search_ok,
                   stale_ids, filtered, idx, exported, load_result, store_before,
                   seen_before, returned_ids, repeated_ids, enrich_raised, merged,
                   save_outcome, score_vars, drive_vars, rental_vars, cost_vars, nearest_vars, retry_vars>>

\* Step 3: prune the stale listings; the test for the nothing-changed path
Prune ==
    /\ pc = "prune"
    /\ LET stale == StaleIds(DOMAIN store, active_ids)
           pruned == Restrict(store, DOMAIN store \ stale)
       IN /\ stale_ids' = stale
          /\ store' = pruned
          /\ pc' = IF new_listings = <<>> /\ stale = {}
                   THEN IF pruned # EmptyMap THEN "export_unchanged" ELSE "done"
                   ELSE "filter"
    /\ trace' = Append(trace, "prune")
    /\ UNCHANGED <<disk_store, disk_seen, err, seen_ids, new_listings, active_ids,
                   zips_left, fetched, search_ok, filtered, idx, exported, load_result, store_before,
                   seen_before, returned_ids, repeated_ids, enrich_raised, merged,
                   save_outcome, score_vars, drive_vars, rental_vars, cost_vars, nearest_vars, retry_vars>>

\* the nothing-changed path: _export(all_listings); return
ExportUnchanged ==
    /\ pc = "export_unchanged"
    /\ \E all_listings \in SortedValues(store), ok \in BOOLEAN :
          /\ exported' = Append(exported, all_listings)
          /\ IF ok
             THEN pc' = "done" /\ err' = err /\ trace' = Append(trace, "export")
             ELSE Abort("_export") /\ trace' = trace
    /\ UNCHANGED <<disk_store, disk_seen, store, seen_ids, new_listings, active_ids,
                   zips_left, fetched, search_ok, stale_ids, filtered, idx, load_result, store_before,
                   seen_before, returned_ids, repeated_ids, enrich_raised, merged,
                   save_outcome, score_vars, drive_vars, rental_vars, cost_vars, nearest_vars, retry_vars>>

\* Step 4: filter the new listings (the scraper sets every listing's town, so
\* resolve_town is not called)
Filter ==
    /\ pc = "filter"
    /\ filtered' = SelectFiltered(new_listings)
    /\ idx' = 1
    /\ trace' = Append(trace, "filter")
    /\ pc' = IF filtered' # <<>> THEN "enrich" ELSE "export"
    /\ UNCHANGED <<disk_store, disk_seen, err, store, seen_ids, new_listings,
                   active_ids, zips_left, fetched, search_ok, stale_ids, exported, load_result,
                   store_before, seen_before, returned_ids, repeated_ids,
                   enrich_raised, merged, save_outcome, score_vars, drive_vars, rental_vars, cost_vars, nearest_vars, retry_vars>>

\* Step 5a, one listing: compute_driving_times under try/except
EnrichOne ==
    /\ pc = "enrich"
    /\ idx <= Len(filtered)
    /\ \E outcome \in DrivingOutcomes :
          LET listing == filtered[idx] IN
          IF outcome = "raised"
          THEN /\ filtered' = [filtered EXCEPT ![idx] = Update(listing, ErrorTimes)]
               /\ enrich_raised' = enrich_raised \cup {listing.zpid}
          ELSE /\ filtered' = [filtered EXCEPT ![idx] =
                                  Update(listing, compute_driving_times(outcome))]
               /\ enrich_raised' = enrich_raised
    /\ IF idx = Len(filtered)
       THEN idx' = 1 /\ pc' = "rate" /\ trace' = Append(trace, "enrich")
       ELSE idx' = idx + 1 /\ pc' = pc /\ trace' = trace
    /\ UNCHANGED <<disk_store, disk_seen, err, store, seen_ids, new_listings,
                   active_ids, zips_left, fetched, search_ok, stale_ids, exported, load_result,
                   store_before, seen_before, returned_ids, repeated_ids, merged,
                   save_outcome, score_vars, drive_vars, rental_vars, cost_vars, nearest_vars, retry_vars>>

\* Step 5b, one listing: rental estimate, net cost, score_listing, merge
RateOne ==
    /\ pc = "rate"
    /\ idx <= Len(filtered)
    /\ LET listing == filtered[idx]
           rental_est == get_rental_estimate(listing.town, listing.rent_zestimate,
                                             listing.beds)
           net_cost == estimate_net_monthly_cost(Val(listing.price), Val(listing.hoa),
                                                 rental_est)
           costed == Update(listing, [rental_estimate |-> rental_est,
                                      net_monthly_cost |-> Some(net_cost)])
           rating == score_listing(costed)
       IN IF rating.raised
          THEN /\ Abort("score_listing")
               /\ filtered' = [filtered EXCEPT ![idx] = costed]
               /\ UNCHANGED <<store, merged, idx, trace>>
          ELSE LET rated == RatedListing(listing, rental_est, net_cost, rating) IN
               /\ filtered' = [filtered EXCEPT ![idx] = rated]
               /\ store' = Put(store, rated.zpid, rated)
               /\ merged' = merged \cup {rated.zpid}
               /\ err' = err
               /\ IF idx = Len(filtered)
                  THEN idx' = 1 /\ pc' = "export"
                          /\ trace' = trace \o <<"rate", "merge">>
                  ELSE idx' = idx + 1 /\ pc' = pc /\ trace' = trace
    /\ UNCHANGED <<disk_store, disk_seen, seen_ids, new_listings, active_ids,
                   zips_left, fetched, search_ok, stale_ids, exported, load_result, store_before,
                   seen_before, returned_ids, repeated_ids, enrich_raised,
                   save_outcome, score_vars, drive_vars, rental_vars, cost_vars, nearest_vars, retry_vars>>

\* Step 6: all_listings = sorted(...); _export(all_listings)
Export ==
    /\ pc = "export"
    /\ \E all_listings \in SortedValues(store), ok \in BOOLEAN :
          /\ exported' = Append(exported, all_listings)
          /\ IF ok
             THEN pc' = "save" /\ err' = err /\ trace' = Append(trace, "export")
             ELSE Abort("_export") /\ trace' = trace
    /\ UNCHANGED <<disk_store, disk_seen, store, seen_ids, new_listings, active_ids,
                   zips_left, fetched, search_ok, stale_ids, filtered, idx, load_result, store_before,
                   seen_before, returned_ids, repeated_ids, enrich_raised, merged,
                   save_outcome, score_vars, drive_vars, rental_vars, cost_vars, nearest_vars, retry_vars>>

\* save_store(store), then the summary
SaveStore ==
    /\ pc = "save"
    /\ \E outcome \in SaveOutcomes :
          /\ disk_store' = save_store(disk_store, store, outcome)
          /\ save_outcome' = outcome
          /\ IF outcome = "ok"
             THEN pc' = "done" /\ err' = err /\ trace' = Append(trace, "save")
             ELSE Abort("save_store") /\ trace' = trace
    /\ UNCHANGED <<disk_seen, store, seen_ids, new_listings, active_ids, zips_left, fetched, search_ok,
                   stale_ids, filtered, idx, exported, load_result, store_before,
                   seen_before, returned_ids, repeated_ids, enrich_raised, merged,
                   score_vars, drive_vars, rental_vars, cost_vars, nearest_vars, retry_vars>>

\* the next scheduled run starts from what the last one left on disk
NextRun ==
    /\ pc \in {"done", "aborted"}
    /\ pc' = "idle"
    /\ Reset
    /\ UNCHANGED <<disk_store, disk_seen, score_vars, drive_vars, rental_vars, cost_vars, nearest_vars, retry_vars>>

Next ==
    \/ LoadStore
    \/ BeginScrape
    \/ SearchZip
    \/ FinishScrape
    \/ Prune
    \/ ExportUnchanged
    \/ Filter
    \/ EnrichOne
    \/ RateOne
    \/ Export
    \/ SaveStore
    \/ NextRun

Spec == Init /\ [][Next]_vars

\* ---------------------------------------------------------------- the rating engine alone

OptionOf(S) == {None} \cup {Some(v) : v \in S}

\* the listings handed to score_listing
ScoreListings ==
    [price : OptionOf({350000, 450000, 550000}),
     beds : OptionOf({0, 1, 2}),
     hoa : OptionOf({0, 300, 450}),
     net_monthly_cost : OptionOf({150000, 250000, 350000}),
     drive_seaport_min : OptionOf({10, 40}),
     drive_google_min : {None, Some(20)},
     drive_mbta_min : {None, Some(3)},
     in_unit_laundry : {None, Some(TRUE)},
     parking : {"Unknown", "none listed"},
     sqft : OptionOf({0, 650, 950})]

InitScore ==
    /\ disk_store = DocMissing
    /\ disk_seen = {}
    /\ pc = "idle"
    /\ Fresh
    /\ sc_listing \in ScoreListings
    /\ sc_result = NoResult
    /\ DriveIdle
    /\ RentalIdle
    /\ CostIdle
    /\ NearestIdle
    /\ RetryIdle

\* score, color, category_scores = score_listing(listing)
ScoreStep ==
    /\ sc_result = NoResult
    /\ sc_result' = score_listing(sc_listing)
    /\ UNCHANGED <<sc_listing, run_vars, drive_vars, rental_vars, cost_vars, nearest_vars, retry_vars>>

NextScore == ScoreStep

SpecScore == InitScore /\ [][NextScore]_vars

\* ---------------------------------------------------------------- driving times alone

NumAddresses == 2
MaxGap == 22

Addresses == 1..NumAddresses
LatArgs == {None, Some(42350)}
LngArgs == {None, Some(-71130)}
NoResponse == [kind |-> "none", row |-> <<>>]

\* the time slept since a request, t later (counted up to MaxGap)
AddGap(gap, t) ==
    IF gap = None THEN None
    ELSE IF Val(gap) + t > MaxGap THEN Some(MaxGap) ELSE Some(Val(gap) + t)

\* the process state with the pipeline and the rating engine at rest
InitDrive ==
    /\ disk_store = DocMissing
    /\ disk_seen = {}
    /\ pc = "idle"
    /\ Fresh
    /\ sc_listing = NoListing
    /\ sc_result = NoResult
    /\ DriveIdle
    /\ RentalIdle
    /\ CostIdle
    /\ NearestIdle
    /\ RetryIdle

\* one compute_driving_times call of the loop of step 5a, with its arguments
\* and the answers of the two services.  A request is sent when the call
\* reaches it: the geocoding request first, the routing request after the
\* sleep of geocode_address.
ComputeDrivingTimes ==
    /\ \E address \in Addresses, lat \in LatArgs, lng \in LngArgs :
       \E geo_response \in (IF NeedsGeocode(lat, lng) /\ CacheIndex(geo_cache, address) = 0
                            THEN GeoResponses ELSE {"none"}),
          osrm_response \in OsrmResponses :
          \E c \in {DrivingTimesCall(geo_cache, address, lat, lng, geo_response,
                                     osrm_response)} :
          LET looked == c.geo_requests > 0
              routed == c.route_requests # <<>>
          IN /\ geo_cache' = c.cache
             /\ geo_looked' = IF looked THEN geo_looked \cup {address} ELSE geo_looked
             /\ geo_relooked' = IF looked /\ address \in geo_looked
                                THEN geo_relooked \cup {address} ELSE geo_relooked
             /\ geo_gap' = IF looked THEN AddGap(Some(0), c.geo_slept + c.route_slept)
                           ELSE AddGap(geo_gap, c.geo_slept + c.route_slept)
             /\ route_gap' = IF routed THEN Some(c.route_slept)
                             ELSE AddGap(route_gap, c.geo_slept)
             /\ dt_call' =
                   [address |-> address, lat |-> lat, lng |-> lng,
                    geo_response |-> IF looked THEN geo_response ELSE "none",
                    osrm_response |-> IF routed THEN osrm_response ELSE NoResponse,
                    raised |-> c.raised, result |-> c.result,
                    geo_called |-> c.geo_called, geo_requests |-> c.geo_requests,
                    origin |-> c.origin, route_requests |-> c.route_requests,
                    route_slept |-> c.route_slept,
                    geo_gap_before |-> IF looked THEN geo_gap ELSE None,
                    route_gap_before |-> IF routed THEN AddGap(route_gap, c.geo_slept)
                                         ELSE None]
    /\ UNCHANGED <<run_vars, score_vars, sweep_next, rental_vars, cost_vars, nearest_vars, retry_vars>>

NextDrive == ComputeDrivingTimes

SpecDrive == InitDrive /\ [][NextDrive]_vars

\* ---------------------------------------------------------------- the geocode cache alone

\* geocode_address(address) called directly
Geocode(address, response) ==
    \E g \in {geocode_address(geo_cache, address, response)} :
    LET looked == g.requests > 0
    IN /\ geo_cache' = g.cache
       /\ geo_looked' = IF looked THEN geo_looked \cup {address} ELSE geo_looked
       /\ geo_relooked' = IF looked /\ address \in geo_looked
                          THEN geo_relooked \cup {address} ELSE geo_relooked
       /\ geo_gap' = IF looked THEN AddGap(Some(0), g.slept) ELSE AddGap(geo_gap, g.slept)
       /\ route_gap' = AddGap(route_gap, g.slept)

\* a process that geocodes address 1, then ever new addresses
InitGeocode ==
    /\ disk_store = DocMissing
    /\ disk_seen = {}
    /\ pc = "idle"
    /\ Fresh
    /\ sc_listing = NoListing
    /\ sc_result = NoResult
    /\ geo_cache = <<>>
    /\ geo_looked = {}
    /\ geo_relooked = {}
    /\ geo_gap = None
    /\ route_gap = None
    /\ dt_call = NoCall
    /\ sweep_next = 1
    /\ RentalIdle
    /\ CostIdle
    /\ NearestIdle
    /\ RetryIdle

\* the next new address; address 1 resolves or comes back unresolved
GeocodeNext ==
    /\ sweep_next \in 1..(LRU_MAXSIZE + 1)
    /\ \E response \in (IF sweep_next = 1 THEN {"ok", "empty"} ELSE {"ok"}) :
          Geocode(sweep_next, response)
    /\ sweep_next' = sweep_next + 1
    /\ UNCHANGED <<run_vars, score_vars, dt_call, rental_vars, cost_vars, nearest_vars, retry_vars>>

\* address 1 once more, as the last call
GeocodeAgain ==
    /\ sweep_next > 1
    /\ Geocode(1, "ok")
    /\ sweep_next' = 0
    /\ UNCHANGED <<run_vars, score_vars, dt_call, rental_vars, cost_vars, nearest_vars, retry_vars>>

NextGeocode == GeocodeNext \/ GeocodeAgain

SpecGeocode == InitGeocode /\ [][NextGeocode]_vars

\* ---------------------------------------------------------------- the rental estimate alone

\* the arguments of get_rental_estimate: a town of the reference table or
\* another or none, an estimate in cents, a bedroom count
RentalArgs ==
    [town : {None, Some("Brighton"), Some("Allston"), Some("Worcester")},
     rent_zestimate : OptionOf({-100, 0, 50, 220000, 220150, 370099}),
     beds : OptionOf({0, 1, 2, 3, 4})]

InitRental ==
    /\ disk_store = DocMissing
    /\ disk_seen = {}
    /\ pc = "idle"
    /\ Fresh
    /\ sc_listing = NoListing
    /\ sc_result = NoResult
    /\ DriveIdle
    /\ re_args \in RentalArgs
    /\ re_result = None
    /\ CostIdle
    /\ NearestIdle
    /\ RetryIdle

\* get_rental_estimate(town, rent_zestimate, beds)
RentalStep ==
    /\ re_result = None
    /\ re_result' = Some(get_rental_estimate(re_args.town, re_args.rent_zestimate,
                                             re_args.beds))
    /\ UNCHANGED <<re_args, run_vars, score_vars, drive_vars, cost_vars, nearest_vars, retry_vars>>

NextRental == RentalStep

SpecRental == InitRental /\ [][NextRental]_vars

\* ---------------------------------------------------------------- the net cost alone

\* two calls of estimate_net_monthly_cost that differ in price and fee only:
\* (price, hoa) and (price2, hoa2), with the same rental estimate and rate
CostArgs ==
    [price : {0, 350000, 350001, 600000},
     price2 : {0, 350000, 350001, 600000},
     hoa : {0, 1, 500},
     hoa2 : {0, 1, 500},
     rental_estimate : {0, 1235},
     interest_rate : {0, InterestRate}]

InitCost ==
    /\ disk_store = DocMissing
    /\ disk_seen = {}
    /\ pc = "idle"
    /\ Fresh
    /\ sc_listing = NoListing
    /\ sc_result = NoResult
    /\ DriveIdle
    /\ RentalIdle
    /\ nc_args \in CostArgs
    /\ nc_result = None
    /\ NearestIdle
    /\ RetryIdle

\* the two calls
CostStep ==
    /\ nc_result = None
    /\ nc_result' = Some(<<NetMonthlyCost(nc_args.price, nc_args.hoa,
                                          nc_args.rental_estimate,
                                          nc_args.interest_rate, LoanTermYears),
                           NetMonthlyCost(nc_args.price2, nc_args.hoa2,
                                          nc_args.rental_estimate,
                                          nc_args.interest_rate, LoanTermYears)>>)
    /\ UNCHANGED <<nc_args, run_vars, score_vars, drive_vars, rental_vars, nearest_vars, retry_vars>>

NextCost == CostStep

SpecCost == InitCost /\ [][NextCost]_vars

\* ---------------------------------------------------------------- the nearest station alone

\* the coordinates asked for: a grid over the area of the stations
NearestQueries ==
    [lat : {42340 + 4 * i : i \in 0..10}, lng : {-71130 + 8 * i : i \in 0..10}]

InitNearest ==
    /\ disk_store = DocMissing
    /\ disk_seen = {}
    /\ pc = "idle"
    /\ Fresh
    /\ sc_listing = NoListing
    /\ sc_result = NoResult
    /\ DriveIdle
    /\ RentalIdle
    /\ CostIdle
    /\ nm_query \in NearestQueries
    /\ nm_results = <<>>
    /\ RetryIdle

\* find_nearest_mbta(lat, lng), called a first and a second time: the place
\* in the list of the station it chose, and the tuple it returned
NearestStep ==
    /\ Len(nm_results) < 2
    /\ \E i \in {NearestFrom(nm_query.lat, nm_query.lng, 1, 0)} :
          nm_results' = Append(nm_results,
                               [index |-> i,
                                returned |-> <<MBTA_STATIONS[i].name, MBTA_STATIONS[i].lat,
                                               MBTA_STATIONS[i].lng>>])
    /\ UNCHANGED <<nm_query, run_vars, score_vars, drive_vars, rental_vars, cost_vars,
                   retry_vars>>

NextNearest == NearestStep

SpecNearest == InitNearest /\ [][NextNearest]_vars

\* ---------------------------------------------------------------- the provider requests alone

MAX_RETRIES == 3

\* what one request of search_zip can meet: status 403; _session.get raising
\* a RequestException; raise_for_status raising one; a body that is not JSON;
\* JSON that is not an object, or whose payload is not one; an object with
\* homes in its payload; an object without
SearchResponses ==
    {"403", "transport_error", "http_error", "parse_error", "not_object",
     "homes", "no_homes"}

\* what one request of _resolve_region_id can meet: status 403; the two
\* RequestExceptions; a page without the region pattern; a page with it
ResolveResponses == {"403", "transport_error", "http_error", "no_match", "region"}

RequestExceptions == {"transport_error", "http_error"}

Returned(value) == [returned |-> value]
Continue(delays) == [continue |-> TRUE, delays |-> delays]

\* for attempt in range(MAX_RETRIES), one attempt too many
MoreAttemptsOneExtra(attempt) == attempt <= MAX_RETRIES

\* for attempt in range(MAX_RETRIES)
MoreAttempts(attempt) == attempt < MAX_RETRIES

\* the except clauses: _delay(3, 8) unless this was the last attempt
FailureDelay(attempt) ==
    IF attempt < MAX_RETRIES - 1 THEN <<[lo |-> 3, hi |-> 8]>> ELSE <<>>

\* one turn of the loop of search_zip
SearchAttempt(response, attempt) ==
    IF response = "403" THEN Continue(<<[lo |-> 5, hi |-> 15]>>)
    ELSE IF response \in RequestExceptions \cup {"parse_error"}
    THEN Continue(FailureDelay(attempt))
    ELSE IF response = "not_object" THEN Raised("AttributeError")
    ELSE IF response = "homes" THEN Returned(<<"home">>)
    ELSE Returned(<<>>)

\* one turn of the loop of _resolve_region_id
ResolveAttempt(response, attempt) ==
    IF response = "403" THEN Continue(<<[lo |-> 5, hi |-> 15]>>)
    ELSE IF response \in RequestExceptions THEN Continue(FailureDelay(attempt))
    ELSE IF response = "region"
    THEN Returned(Some([region_id |-> "id", region_type |-> "2"]))
    ELSE Returned(None)

\* what the function returns after the loop
Exhausted(fn) == IF fn = "search_zip" THEN Returned(<<>>) ELSE Returned(None)

InitSearch ==
    /\ disk_store = DocMissing
    /\ disk_seen = {}
    /\ pc = "idle"
    /\ Fresh
    /\ sc_listing = NoListing
    /\ sc_result = NoResult
    /\ DriveIdle
    /\ RentalIdle
    /\ CostIdle
    /\ NearestIdle
    /\ RetryIdle

\* search_zip(label, region_id) or _resolve_region_id(zip_code) is called
CallRequest ==
    /\ rq_fn = ""
    /\ rq_fn' \in {"search_zip", "_resolve_region_id"}
    /\ UNCHANGED <<rq_responses, rq_delays, rq_outcome, run_vars, score_vars,
                   drive_vars, rental_vars, cost_vars, nearest_vars>>

\* one turn of the retry loop: the request, what the code does with the
\* response and, after the last turn, the return that follows the loop
Request ==
    /\ rq_fn # ""
    /\ rq_outcome = Pending
    /\ LET attempt == Len(rq_responses) IN
       /\ MoreAttempts(attempt)
       /\ \E response \in (IF rq_fn = "search_zip" THEN SearchResponses
                            ELSE ResolveResponses) :
          LET r == IF rq_fn = "search_zip" THEN SearchAttempt(response, attempt)
                   ELSE ResolveAttempt(response, attempt)
          IN /\ rq_responses' = Append(rq_responses, response)
             /\ IF "continue" \in DOMAIN r
                THEN /\ rq_delays' = rq_delays \o r.delays
                     /\ rq_outcome' = IF MoreAttempts(attempt + 1) THEN Pending
                                      ELSE Exhausted(rq_fn)
                ELSE /\ rq_delays' = rq_delays
                     /\ rq_outcome' = r
    /\ UNCHANGED <<rq_fn, run_vars, score_vars, drive_vars, rental_vars, cost_vars,
                   nearest_vars>>

NextSearch == CallRequest \/ Request

\* each request times out and each delay is a finite sleep, so a call under
\* way always takes its next turn
SpecSearch == InitSearch /\ [][NextSearch]_vars /\ WF_vars(Request)

\* ---------------------------------------------------------------- claims

Ended == pc \in {"done", "aborted"}
Scraped == "scrape" \in Range(trace)
Persisted == load_store(disk_store)
ListingIds(ls) == {ls[i].zpid : i \in DOMAIN ls}

\* C1: after a run that completes, the persisted store holds exactly the
\* previously stored ids that are in the run's active-id set plus the ids
\* merged in the run, and no id outside the active-id set.
C1_PruneCorrect ==
    pc = "done" =>
        /\ Persisted.mapping
        /\ DOMAIN Persisted.map = (DOMAIN store_before \cap active_ids) \cup merged
        /\ DOMAIN Persisted.map \subseteq active_ids

\* a completed run that removed a stale id, kept an active one and saved
C1_Witness ==
    /\ pc = "done"
    /\ save_outcome = "ok"
    /\ stale_ids # {}
    /\ DOMAIN store_before \cap active_ids # {}

C3_FailedSaveKeepsStore ==
    save_outcome \in {"failed_early", "failed_partial"} =>
        /\ Persisted.mapping
        /\ Persisted.map = store_before \/ Persisted.map = store

\* C4: load_store never raises and returns a mapping whatever the document holds.
C4_LoadAlwaysMapping == load_result \in {"none", "mapping"}

\* the place of each step in the order load, scrape, prune, filter, enrich,
\* rate, merge, save, export
ClaimedRank ==
    [load |-> 1, scrape |-> 2, prune |-> 3, filter |-> 4, enrich |-> 5,
     rate |-> 6, merge |-> 7, save |-> 8, export |-> 9]

\* C5: the steps of a run occur in the order load, scrape, prune, filter,
\* enrich, rate, merge, save, export: the store is saved before the export.
C5_StepOrder ==
    \A i, j \in DOMAIN trace :
        i < j => ClaimedRank[trace[i]] < ClaimedRank[trace[j]]

\* C6: the active-id set holds the id of every home the provider returned with
\* an id, so no listing the provider still reports is computed as stale.
C6_ActiveCoversReturned ==
    Scraped => /\ returned_ids \subseteq active_ids
               /\ stale_ids \cap returned_ids = {}

\* C7: new_listings holds only ids that were not in the seen-id set at the
\* start of the run, each at most once.
C7_NewOnlyUnseenOnce ==
    /\ \A i \in DOMAIN new_listings : new_listings[i].zpid \notin seen_before
    /\ \A i, j \in DOMAIN new_listings :
          new_listings[i].zpid = new_listings[j].zpid => i = j

\* a scrape in which a new id came back from two ZIP searches and a seen id
\* came back too
C7_Witness ==
    /\ Scraped
    /\ repeated_ids \cap ListingIds(new_listings) # {}
    /\ seen_before \cap returned_ids # {}

\* C8: when compute_driving_times raised for a listing, the run still rates
\* and merges every filtered listing and saves the store.
C8_EnrichErrorIsLocal ==
    (enrich_raised # {} /\ Ended /\ err \notin {"_export", "save_store"}) =>
        /\ pc = "done"
        /\ save_outcome = "ok"
        /\ ListingIds(filtered) \subseteq merged
        /\ \A id \in enrich_raised : store[id].nearest_mbta_station = "Error"

LowerIsBetter ==
    {"price", "price_per_bed", "hoa", "net_monthly_cost", "commute_seaport",
     "commute_google", "mbta_proximity"}

\* C9: score_listing returns a total in [1.0, 3.0], category scores in
\* {1, 2, 3} and the colour that the thresholds give the returned total.
C9_ScoreInRange ==
    sc_result # NoResult =>
        /\ ~sc_result.raised
        /\ sc_result.score \in 100..300
        /\ \A c \in DOMAIN sc_result.scores : sc_result.scores[c] \in {1, 2, 3}
        /\ sc_result.color \in {"Green", "Yellow", "Red"}
        /\ sc_result.color = "Green" <=> sc_result.score >= 230
        /\ sc_result.color = "Red" <=> sc_result.score < 170

\* the value of a lower-is-better metric of a listing, None when it has none;
\* price per bedroom as <<price, beds>>
MetricOf(listing, c) ==
    CASE c = "price" -> listing.price
      [] c = "hoa" -> listing.hoa
      [] c = "net_monthly_cost" -> listing.net_monthly_cost
      [] c = "commute_seaport" -> listing.drive_seaport_min
      [] c = "commute_google" -> listing.drive_google_min
      [] c = "mbta_proximity" -> listing.drive_mbta_min

\* C10: every lower-is-better category score is 3 at or below the green
\* ceiling, 1 at or above the red floor, 2 in between, and 2 when the listing
\* has no value for the metric.
C10_LowerIsBetterScores ==
    sc_result # NoResult =>
        /\ ~sc_result.raised
        /\ LowerIsBetter \subseteq DOMAIN sc_result.scores
        /\ \A c \in LowerIsBetter \ {"price_per_bed"} :
              LET v == MetricOf(sc_listing, c)
                  unit == IF c = "net_monthly_cost" THEN 100 ELSE 1
              IN sc_result.scores[c] =
                    IF v = None THEN 2
                    ELSE IF Val(v) <= RATING_THRESHOLDS[c][1] * unit THEN 3
                    ELSE IF Val(v) >= RATING_THRESHOLDS[c][2] * unit THEN 1
                    ELSE 2
        /\ ~Truthy(sc_listing.beds) => sc_result.scores["price_per_bed"] = 2

\* C11: for every listing the pipeline hands to the rating step, the laundry
\* and parking category scores are 3 for a feature known present, 1 for one
\* known absent and 2 for an unknown one.  The source reports laundry for no
\* home, so every listing's laundry is unknown; parking is unknown when the
\* descriptor is "Unknown".
C11_UnknownStaysNeutral ==
    pc = "rate" =>
        \A i \in DOMAIN filtered :
            /\ LaundryScore(filtered[i]) = 2
            /\ ParkingScore(filtered[i]) =
                   (IF filtered[i].parking = "Unknown" THEN 2
                    ELSE IF filtered[i].parking \in {"none listed", "none", ""} THEN 1
                    ELSE 3)

\* C12: within one process no address is sent to the geocoding service more
\* than once, whatever was geocoded in between and whether it resolved or not.
C12_OneLookupPerAddress == geo_relooked = {}

\* C13: a geocoding request that is not the first of the process is sent at
\* least 1 second after the one before it, however that one ended.
C13_GeocodeRequestsSpaced ==
    dt_call # NoCall =>
        (dt_call.geo_gap_before = None \/ Val(dt_call.geo_gap_before) >= 10)

\* C14: a compute_driving_times call that has coordinates sends exactly one
\* routing request, from its coordinates to the nearest station and the two
\* reference destinations in that order, and then waits at least 1 second
\* whatever the answer, so routing requests are at least 1 second apart.
C14_OneRoutingRequest ==
    (dt_call # NoCall /\ dt_call.origin # None) =>
        LET origin == Val(dt_call.origin)
            station == find_nearest_mbta(origin[1], origin[2])
        IN /\ Len(dt_call.route_requests) = 1
           /\ dt_call.route_requests[1].origin = origin
           /\ dt_call.route_requests[1].destinations =
                 <<<<station.lat, station.lng>>,
                   <<DESTINATIONS.seaport.lat, DESTINATIONS.seaport.lng>>,
                   <<DESTINATIONS.google_cambridge.lat,
                     DESTINATIONS.google_cambridge.lng>>>>
           /\ dt_call.route_slept >= 10
           /\ Val(route_gap) >= 10
           /\ (dt_call.route_gap_before = None \/ Val(dt_call.route_gap_before) >= 10)

\* a routing request that failed, sent after an earlier routing request
C14_Witness ==
    /\ dt_call # NoCall
    /\ dt_call.route_requests # <<>>
    /\ dt_call.route_gap_before # None
    /\ dt_call.osrm_response.kind = "transport_error"

\* C15: when a coordinate is missing and the geocoding lookup fails, the call
\* does not raise, returns station "Unknown" with the three durations absent,
\* and sends no routing request.
C15_GeocodeFailureIsUnknown ==
    (/\ dt_call # NoCall
     /\ (dt_call.lat = None \/ dt_call.lng = None)
     /\ dt_call.geo_response \in {"timeout", "http_error", "malformed", "empty"}) =>
        /\ ~dt_call.raised
        /\ dt_call.result.nearest_mbta_station = "Unknown"
        /\ dt_call.result.drive_mbta_min = None
        /\ dt_call.result.drive_seaport_min = None
        /\ dt_call.result.drive_google_min = None
        /\ dt_call.route_requests = <<>>

\* a call with only the latitude supplied whose lookup timed out
C15_Witness ==
    /\ dt_call # NoCall
    /\ dt_call.lat # None
    /\ dt_call.lng = None
    /\ dt_call.geo_response = "timeout"

\* C16: when the routing request fails or a destination has no route, the call
\* returns (does not raise), with each affected duration absent and the name
\* of the nearest station it had resolved.
C16_RoutingFailureKeepsStation ==
    (dt_call # NoCall /\ dt_call.route_requests # <<>>) =>
        LET row == dt_call.osrm_response.row
            failed == dt_call.osrm_response.kind # "ok"
            affected(i) == failed \/ i > Len(row) \/ row[i] = None
            origin == Val(dt_call.origin)
        IN /\ ~dt_call.raised
           /\ dt_call.result.nearest_mbta_station =
                 find_nearest_mbta(origin[1], origin[2]).name
           /\ affected(1) => dt_call.result.drive_mbta_min = None
           /\ affected(2) => dt_call.result.drive_seaport_min = None
           /\ affected(3) => dt_call.result.drive_google_min = None

\* C17: a call given both coordinates does not call geocode_address, sends no
\* geocoding request and routes from the coordinates it was given; it calls
\* geocode_address only when a coordinate is missing.
C17_SuppliedCoordinatesUsed ==
    dt_call # NoCall =>
        /\ (dt_call.lat # None /\ dt_call.lng # None) =>
              /\ ~dt_call.geo_called
              /\ dt_call.geo_requests = 0
              /\ Len(dt_call.route_requests) = 1
              /\ dt_call.route_requests[1].origin = <<Val(dt_call.lat), Val(dt_call.lng)>>
        /\ dt_call.geo_called => (dt_call.lat = None \/ dt_call.lng = None)

\* a call with both coordinates for an address the cache does not hold
C17_Witness ==
    /\ dt_call # NoCall
    /\ dt_call.lat # None
    /\ dt_call.lng # None
    /\ CacheIndex(geo_cache, dt_call.address) = 0
    /\ dt_call.route_requests # <<>>

\* C18: a listing priced above MAX_PRICE, or without a price, does not pass
\* the filter step: it is not among the listings handed to
\* compute_driving_times and to the rating step, and is not merged.
C18_OverPricedRejected ==
    /\ \A i \in DOMAIN filtered :
          filtered[i].price # None /\ Val(filtered[i].price) <= MAX_PRICE
    /\ \A id \in merged :
          store[id].price # None /\ Val(store[id].price) <= MAX_PRICE
    /\ \A id \in enrich_raised \cup merged : id \in ListingIds(filtered)

\* the enrichment loop has run on what the filter let through, and a new
\* listing priced 650000 is not part of it
C18_Witness ==
    /\ pc = "rate"
    /\ filtered # <<>>
    /\ \E i \in DOMAIN new_listings :
          /\ new_listings[i].price = Some(650000)
          /\ new_listings[i].zpid \notin ListingIds(filtered)

\* C19: get_rental_estimate returns 0 whenever beds is absent or below 2,
\* whatever the town and the external estimate.
C19_NoRentBelowTwoBeds ==
    (re_result # None /\ (re_args.beds = None \/ Val(re_args.beds) < 2)) =>
        Val(re_result) = 0

\* one bedroom, a town of the table and an external estimate: 0
C19_Witness ==
    /\ re_result = Some(0)
    /\ re_args.beds = Some(1)
    /\ re_args.town = Some("Brighton")
    /\ re_args.rent_zestimate = Some(220000)

\* C20: for beds >= 2 the result is floor(estimate / beds) x 1.05 truncated
\* when there is a (positive) external estimate, else the town's reference
\* rent x 0.65 truncated for a town of the table, else the metro-wide figure
\* x 0.65 truncated; an estimate of 2200 with 2 bedrooms gives 1155.
C20_RentFormula ==
    (re_result # None /\ re_args.beds # None /\ Val(re_args.beds) >= 2) =>
        LET beds == Val(re_args.beds)
            z == re_args.rent_zestimate
            town == re_args.town
        IN /\ Val(re_result) =
                 (IF z # None /\ Val(z) > 0
                  THEN ((Val(z) \div (100 * beds)) * 105) \div 100
                  ELSE IF town # None /\ Val(town) \in {"Brighton", "Allston"}
                  THEN (FallbackRents[Val(town)] * 65) \div 100
                  ELSE (MetroRent * 65) \div 100)
           /\ (z = Some(220000) /\ beds = 2) => Val(re_result) = 1155

\* the estimate 2200 shared by 2 bedrooms
C20_Witness ==
    /\ re_result = Some(1155)
    /\ re_args.rent_zestimate = Some(220000)
    /\ re_args.beds = Some(2)

\* C21: estimate_net_monthly_cost does not decrease when the price grows with
\* the fee fixed, nor when the fee grows with the price fixed, the other
\* arguments being the same, for a positive rate and for a rate of 0.
C21_NetCostMonotone ==
    nc_result # None =>
        /\ (nc_args.price <= nc_args.price2 /\ nc_args.hoa = nc_args.hoa2) =>
              Val(nc_result)[1] <= Val(nc_result)[2]
        /\ (nc_args.price = nc_args.price2 /\ nc_args.hoa <= nc_args.hoa2) =>
              Val(nc_result)[1] <= Val(nc_result)[2]

\* a rate of 0, the price one unit higher and the fee the same
C21_Witness ==
    /\ nc_result # None
    /\ nc_args.interest_rate = 0
    /\ nc_args.price = 350000
    /\ nc_args.price2 = 350001
    /\ nc_args.hoa = nc_args.hoa2

\* the size score of the claim: an area is known when the listing has one
ClaimedSize(sqft, beds) ==
    IF sqft # None /\ Val(sqft) >= 900 THEN 3
    ELSE IF beds # None /\ Val(beds) >= 2 THEN 3
    ELSE IF sqft # None /\ Val(sqft) >= 700 THEN 2
    ELSE IF sqft # None THEN 1
    ELSE 2

\* C22: score_listing returns the size score 3 for an area of 900 or more,
\* else 3 for two or more bedrooms, else 2 for an area of 700 or more, else 1
\* for a known area below 700, else 2.
C22_SizeScore ==
    sc_result # NoResult =>
        /\ ~sc_result.raised
        /\ sc_result.scores.size = ClaimedSize(sc_listing.sqft, sc_listing.beds)

\* C23: find_nearest_mbta returns a station of the list at minimal distance
\* from the coordinates asked for, the first such station in list order, and
\* the same station when asked a second time.
C23_NearestFirstMinimum ==
    LET dist(j) == _haversine_km(nm_query.lat, nm_query.lng,
                                 MBTA_STATIONS[j].lat, MBTA_STATIONS[j].lng)
    IN /\ \A k \in DOMAIN nm_results :
             LET i == nm_results[k].index IN
             /\ i \in DOMAIN MBTA_STATIONS
             /\ nm_results[k].returned =
                   <<MBTA_STATIONS[i].name, MBTA_STATIONS[i].lat, MBTA_STATIONS[i].lng>>
             /\ \A j \in DOMAIN MBTA_STATIONS : dist(i) <= dist(j)
             /\ \A j \in 1..(i - 1) : dist(j) > dist(i)
       /\ Len(nm_results) = 2 => nm_results[1] = nm_results[2]

\* asked twice for coordinates from which two stations of the list are
\* equally near and nearest
C23_Witness ==
    /\ Len(nm_results) = 2
    /\ \E j \in DOMAIN MBTA_STATIONS :
          /\ j # nm_results[1].index
          /\ _haversine_km(nm_query.lat, nm_query.lng,
                           MBTA_STATIONS[j].lat, MBTA_STATIONS[j].lng)
               = _haversine_km(nm_query.lat, nm_query.lng,
                               MBTA_STATIONS[nm_results[1].index].lat,
                               MBTA_STATIONS[nm_results[1].index].lng)

\* C24: load_store on a document that is a flat list of records returns,
\* without raising, the mapping with one entry per record that has an id,
\* under that id, and with nothing for the records that have none.
C24_LegacyListMigrated ==
    (/\ load_result # "none"
     /\ disk_store.kind = "list"
     /\ \A i \in DOMAIN disk_store.items : IsObject(disk_store.items[i])) =>
        LET with_id == {disk_store.items[i] : i \in
                           {j \in DOMAIN disk_store.items :
                               "zpid" \in DOMAIN disk_store.items[j]}}
        IN /\ load_result = "mapping"
           /\ DOMAIN store_before = {r.zpid : r \in with_id}
           /\ \A r \in with_id : store_before[r.zpid] = r

\* a list of two records with an id and one without has been loaded
C24_Witness ==
    /\ load_result = "mapping"
    /\ disk_store = DocList(<<Stored("A"), NoIdRecord, Stored("B")>>)
    /\ DOMAIN store_before = {"A", "B"}

\* C25: every sequence handed to _export in a run, on the normal and on the
\* nothing-changed path, holds exactly the listings of the store as the run's
\* prune and merge left it, in an order of non-increasing rating score.
C25_ExportSortedStore ==
    \A k \in DOMAIN exported :
        LET seq == exported[k] IN
        /\ Len(seq) = Cardinality(DOMAIN store)
        /\ {seq[i] : i \in DOMAIN seq} = {store[id] : id \in DOMAIN store}
        /\ \A i \in 1..(Len(seq) - 1) : RatingKey(seq[i]) >= RatingKey(seq[i + 1])
        /\ DOMAIN store = (DOMAIN store_before \ stale_ids) \cup merged

\* an export on the normal path, after a prune, of two listings with
\* different scores
C25_Witness ==
    /\ pc = "save"
    /\ stale_ids # {}
    /\ Len(exported) = 1
    /\ Len(exported[1]) = 2
    /\ RatingKey(exported[1][1]) > RatingKey(exported[1][2])

\* C26: when a run has ended, however it ended, every active listing that
\* passed its filter is in the persisted store or else not in the persisted
\* seen-id set, so that a later run gets it as new.
C26_NoListingSkipped ==
    (Ended /\ Scraped) =>
        \A i \in DOMAIN filtered :
            \/ filtered[i].zpid \in DOMAIN Persisted.map
            \/ filtered[i].zpid \notin disk_seen

\* C27: a run in which no ZIP search got an answer (no region id, or retries
\* exhausted) removes no stored listing: what was in the store when the run
\* loaded it is still there after the prune step.
C27_FailedSearchKeepsStore ==
    ("prune" \in Range(trace) /\ ~search_ok) =>
        DOMAIN store_before \subseteq DOMAIN store

\* C28: score_listing finds every threshold key it reads and returns for
\* every listing the scraper produces: no run ends in its rating step.
C28_RatingNeverAborts == err # "score_listing"

\* the ids scrape_all_towns found active that its loaded seen-id set lacked:
\* never seen, or dropped from the set by a run in which they were not active
Reappeared == active_ids \ seen_before

\* after scrape_all_towns has returned, the seen-id file holds the run's
\* active ids and nothing else
SeenIsActive == Scraped => disk_seen = active_ids

\* every id that reappeared is in the list scrape_all_towns returned as new
ReturnedAsNew ==
    Scraped => Reappeared \subseteq {new_listings[i].zpid : i \in DOMAIN new_listings}

\* a reappeared listing that passed the filters is in the persisted store
\* once the run has ended
ReentersStore ==
    (Ended /\ Scraped) =>
        \A i \in DOMAIN filtered :
            filtered[i].zpid \in Reappeared => filtered[i].zpid \in DOMAIN Persisted.map

\* C29: after scrape_all_towns has returned, the persisted seen-id set is the
\* run's active-id set, so an id dropped by an earlier run is returned as new
\* when it is active again, and the run puts its listing back in the store.
C29_ReappearedListingRestored ==
    /\ SeenIsActive
    /\ ReturnedAsNew
    /\ ReentersStore

\* the responses the retry loops are built for, and the successful ones
ClaimedFailures == {"403", "transport_error", "http_error", "parse_error", "no_match"}
Successes == {"homes", "no_homes", "region"}

\* safety half: never more than MAX_RETRIES requests; a call that met only
\* failures and has ended returned [] or None; a successful response is the
\* last request of its call and the call returned then
RetryBounded ==
    /\ Len(rq_responses) <= MAX_RETRIES
    /\ (Range(rq_responses) \subseteq ClaimedFailures \cup Successes) =>
           /\ "raised" \notin DOMAIN rq_outcome
           /\ (rq_outcome # Pending /\ Range(rq_responses) \subseteq ClaimedFailures)
                 => rq_outcome = Exhausted(rq_fn)
           /\ \A i \in DOMAIN rq_responses :
                 rq_responses[i] \in Successes =>
                    /\ i = Len(rq_responses)
                    /\ rq_outcome # Pending
    /\ (Len(rq_responses) = MAX_RETRIES) => rq_outcome # Pending

\* C30: under every sequence of 403 responses, transport errors and parse
\* errors search_zip and _resolve_region_id issue at most MAX_RETRIES requests
\* and end; when every attempt failed they return [] / None and do not raise;
\* a successful attempt is the last request of the call.
C30_RetriesTerminate ==
    /\ []RetryBounded
    /\ (rq_fn # "") ~> (rq_outcome # Pending)

\* search_zip met a 403, a transport error and a parse error, in MAX_RETRIES
\* requests, and returned []
C30_Witness ==
    /\ rq_fn = "search_zip"
    /\ Len(rq_responses) = MAX_RETRIES
    /\ {"403", "transport_error", "parse_error"} \subseteq Range(rq_responses)
    /\ rq_outcome = Returned(<<>>)

====
